---- MODULE Spec2Model ----
(***************************************************************************)
(* State-machine model of the transfer functions of                        *)
(* topo/transferfn/misc.py: KernelMax, HalfRectify, TemporalScatter,       *)
(* HomeostaticResponse and AttributeTrackingTF.                            *)
(*                                                                         *)
(* An activity matrix of shape (d1,d2) is a function from the set Units of *)
(* its positions to numbers.  A Python attribute that may hold None is an  *)
(* optional value: None is the empty tuple, a set value v is <<v>>.        *)
(* Variables whose comment says "history" are not fields of the program:   *)
(* they record what happened, so that the properties can speak about it.   *)
(***************************************************************************)
EXTENDS Integers, Sequences, FiniteSets, TLC

VARIABLES
    now,              \* topo.sim.time(), the simulation clock
    inst,             \* the class of the transfer function instance in use
    \* ---- TemporalScatter
    ts_span,          \* parameter span
    ts_timestep,      \* parameter timestep
    ts_depth,         \* self._depth (optional)
    ts_first_call,    \* self.first_call
    ts_depth_map,     \* self.depth_map (optional)
    ts_buffer,        \* self._buffer (optional); ts_buffer[1][u][k+1] is _buffer[u,k]
    ts_stack,         \* self.__current_state_stack, newest snapshot last
    ts_x,             \* the caller's matrix x as the call just made left it (optional)
    ts_raw,           \* self.raw_depth_map as the call just made sampled it (optional;
                      \*          None when the call just made sampled nothing)
    ts_last,          \* history: the last operation and whether it raised
    ts_ncalls,        \* history: the number of successful calls so far
    ts_hist,          \* history: the inputs of the successful calls, in order,
                      \*          kept for as long as ts_clean holds
    ts_clean,         \* history: no state_push/state_pop was made so far
    ts_since,         \* history: the inputs of the successful calls made since the
                      \*          innermost unmatched state_push, in order, without
                      \*          the calls made between a later state_push and its
                      \*          state_pop (empty while the stack is empty)
    ts_saved,         \* history: (buffer, first_call, ts_ncalls, ts_since) just before each
                      \*          unmatched state_push
    ts_expect,        \* history: the entry of ts_saved that the state_pop just made
                      \*          had to restore (optional)
    \* ---- HomeostaticResponse
    hr_period,        \* parameter period
    hr_linear_slope,  \* parameter linear_slope
    hr_plastic,       \* parameter plastic
    hr_first_call,    \* self.first_call
    hr_t,             \* self.t (optional)
    hr_y_avg,         \* self.y_avg (optional)
    hr_next_update,   \* self._next_update_timestamp
    hr_y_avg_prev,    \* self._y_avg_prev (optional)
    hr_x_prev,        \* self._x_prev (optional)
    hr_stack,         \* self.__current_state_stack, newest snapshot last
    hr_x,             \* the caller's matrix x as the call just made left it (optional)
    hr_in,            \* history: the matrix x as the call just made received it (optional)
    hr_last,          \* history: the last operation
    hr_updated,       \* history: the call just made ran the threshold update step
    hr_src,           \* history: the call whose activity the update step just run
                      \*          read from _x_prev: "this call" when _initialize had
                      \*          copied it from the x of the same call, "a previous
                      \*          call" otherwise ("none": no update step was run)
    hr_ncalls,        \* history: the number of calls so far
    hr_before,        \* history: (t, y_avg, first_call) just before the call or clock
                      \*          advance just made (optional)
    hr_adj_slot,      \* history: now // period at the last threshold adjustment made
                      \*          since the last state_push/state_pop (optional)
    hr_adj_again,     \* history: the call just made adjusted the threshold between the
                      \*          same two multiples of period as the adjustment before it
    hr_saved,         \* history: the six fields, hr_ncalls and now just before each
                      \*          unmatched state_push
    hr_expect,        \* history: the entry of hr_saved that the state_pop just made
                      \*          had to restore (optional)
    \* ---- AttributeTrackingTF
    at_step,          \* parameter step
    at_object,        \* parameter object: what it denotes (itself, or by eval when
                      \*          it is given as a string)
    at_coordframe,    \* parameter coordframe
    at_plastic,       \* parameter plastic
    at_values,        \* self.values: attribute -> unit -> sequence of (time, value)
    at_n_step,        \* self.n_step
    at__object,       \* self._object (optional)
    at__coordframe,   \* self._coordframe (optional): where the frame was taken from
    at_last,          \* history: whether the last call made returned or raised
    at_ncalls,        \* history: the number of successful calls so far
    at_log,           \* history: for every attribute and unit, the samples of the calls
                      \*          whose number is a multiple of step and that were made
                      \*          with plastic true
    \* ---- HalfRectify
    hf_t_init,        \* parameter t_init, in tenths
    hf_gain,          \* parameter gain
    hf_randomized_init, \* parameter randomized_init
    hf_first_call,    \* self.first_call
    hf_t,             \* self.t, in tenths (optional: not set before the first call)
    hf_x,             \* the caller's matrix x as the call just made left it (optional)
    hf_in,            \* history: the matrix x as the call just made received it (optional)
    hf_ncalls,        \* history: the number of calls so far
    \* ---- KernelMax
    km_rows,          \* x.shape[0] of the matrices the instance is called with
    km_cols,          \* x.shape[1] of the matrices the instance is called with
    km_kernel_radius, \* parameter kernel_radius, in quarters
    km_density,       \* parameter density
    km_crop_radius_multiplier, \* parameter crop_radius_multiplier
    km_x,             \* the caller's matrix x as the call just made left it (optional)
    km_given,         \* the matrix the caller hands to every call, each time as a
                      \*          fresh copy
    km_win,           \* history: (wr, wc) of the call just made (optional)
    km_box,           \* history: crop_radius, cmin, cmax, rmin, rmax, ymin and ymax of
                      \*          the call just made (optional)
    km_repeat         \* history: (wr, wc) of the call before the one just made, which
                      \*          received the same matrix (optional)

ts_vars == <<ts_span, ts_timestep, ts_depth, ts_first_call, ts_depth_map,
             ts_buffer, ts_stack, ts_x, ts_last, ts_ncalls, ts_hist, ts_clean,
             ts_saved, ts_since,
             ts_expect, ts_raw>>

hr_vars == <<hr_period, hr_linear_slope, hr_plastic, hr_first_call, hr_t,
             hr_y_avg, hr_next_update, hr_y_avg_prev, hr_x_prev, hr_stack, hr_x,
             hr_in, hr_last, hr_updated, hr_src, hr_ncalls, hr_before, hr_adj_slot,
             hr_adj_again, hr_saved, hr_expect>>

at_vars == <<at_step, at_object, at_coordframe, at_plastic,
             at_values, at_n_step, at__object, at__coordframe, at_last,
             at_ncalls, at_log>>

hf_vars == <<hf_t_init, hf_gain, hf_randomized_init, hf_first_call, hf_t,
             hf_x, hf_in, hf_ncalls>>

km_vars == <<km_rows, km_cols, km_kernel_radius, km_density,
             km_crop_radius_multiplier, km_x, km_given, km_win, km_box,
             km_repeat>>

vars == <<now, inst, ts_vars, hr_vars, at_vars, hf_vars, km_vars>>

\* what the operations of TemporalScatter leave alone
ts_rest == <<now, inst, hr_vars, at_vars, hf_vars, km_vars>>
\* what the operations of HomeostaticResponse leave alone
hr_rest == <<inst, ts_vars, at_vars, hf_vars, km_vars>>
\* what the operations of AttributeTrackingTF leave alone
at_rest == <<inst, ts_vars, hr_vars, hf_vars, km_vars>>
\* what the operations of HalfRectify leave alone
hf_rest == <<now, inst, ts_vars, hr_vars, at_vars, km_vars>>
\* what the operations of KernelMax leave alone
km_rest == <<now, inst, ts_vars, hr_vars, at_vars, hf_vars>>

----------------------------------------------------------------------------
(* Bounds of the model *)

\* span is drawn from 0..MaxSpan
MaxSpan == 3
\* at most MaxCalls successful calls of a TemporalScatter in a behaviour
MaxCalls == 3
\* at most MaxHRCalls calls of a HomeostaticResponse in a behaviour
MaxHRCalls == 2
\* the simulation clock runs from 0 to MaxTime
MaxTime == 3
\* at most MaxATCalls successful calls of an AttributeTrackingTF in a behaviour
MaxATCalls == 4
\* the parameter step of an AttributeTrackingTF is drawn from 1..MaxStep
MaxStep == 2
\* at most MaxStack unmatched state_push
MaxStack == 2
\* The largest number of calls of the HalfRectify instance.
MaxHFCalls == 3
\* The largest number of rows and of columns of a matrix given to KernelMax.
MaxDim == 3

\* The positions of the activity matrix (a 1 x 2 sheet).
Units == {1, 2}
\* The activities a unit of an input matrix can have.
Activities == {0, 1}
\* Values of the parameter timestep (param.Number without bounds).
Timesteps == {-1, 0, 1, 2}
\* Latency samples (ms) the distribution can produce for a unit.
Latencies == (-MaxSpan)..MaxSpan

None == << >>
Some(v) == << v >>

----------------------------------------------------------------------------
(* Python arithmetic *)

\* a // b of Python for integers, b # 0: the floor of a/b.
PyFloorDiv(a, b) == IF b > 0 THEN a \div b ELSE (-a) \div (-b)

\* a % b of Python for integers, b # 0: the result has the sign of b.
PyMod(a, b) == a - b * PyFloorDiv(a, b)

----------------------------------------------------------------------------
(* TemporalScatter *)

\* The property depth: [raises |-> whether the access raises, value |-> the
\* depth returned, cache |-> self._depth afterwards].
\* (depth_MissingModCheck: the variant that does not test span % timestep.)
depth_MissingModCheck(span, timestep, cached) ==
    IF cached # None /\ cached[1] # 0
    THEN [raises |-> FALSE, value |-> cached[1], cache |-> cached]
    ELSE IF timestep = 0 \/ PyFloorDiv(span, timestep) = 0
         THEN [raises |-> TRUE, value |-> 0, cache |-> cached]
         ELSE [raises |-> FALSE, value |-> PyFloorDiv(span, timestep),
               cache |-> Some(PyFloorDiv(span, timestep))]

depth(span, timestep, cached) ==
    IF cached # None /\ cached[1] # 0
    THEN [raises |-> FALSE, value |-> cached[1], cache |-> cached]
    ELSE IF timestep = 0   \* ZeroDivisionError of span // timestep
         THEN [raises |-> TRUE, value |-> 0, cache |-> cached]
         ELSE IF PyFloorDiv(span, timestep) = 0 \/ PyMod(span, timestep) # 0
              THEN [raises |-> TRUE, value |-> 0, cache |-> cached]
              ELSE [raises |-> FALSE, value |-> PyFloorDiv(span, timestep),
                    cache |-> Some(PyFloorDiv(span, timestep))]

\* np.linspace(-span/2, span/2, n)[i], times BinScale(n), which makes it an integer.
BinScale(n) == IF n = 1 THEN 2 ELSE 2 * (n - 1)

bin_edge(i, span, n) ==
    IF n = 1 THEN -span ELSE -span * (n - 1) + 2 * i * span

\* np.digitize(v, bin_edges): the number of edges e with e <= v.
digitize(v, span, n) ==
    Cardinality({i \in 0..(n - 1) : bin_edge(i, span, n) <= v * BinScale(n)})

\* (compute_depth_map_PullsToFirst: the variant that puts the samples of the
\* overflow bin into bin 0.)
compute_depth_map_PullsToFirst(raw, span, n) ==
    [u \in Units |->
        IF digitize(raw[u], span, n) = n THEN 0 ELSE digitize(raw[u], span, n)]

\* _compute_depth_map for the latency samples raw and depth n.
compute_depth_map(raw, span, n) ==
    [u \in Units |->
        IF digitize(raw[u], span, n) = n THEN n - 1 ELSE digitize(raw[u], span, n)]

\* np.roll(buffer, 1, axis=2) followed by buffer[...,0] = x
\* (roll_and_store_Backwards: the variant that rolls by -1 and stores last.)
roll_and_store_Backwards(buf, x, n) ==
    [u \in Units |-> SubSeq(buf[u], 2, n) \o <<x[u]>>]

roll_and_store(buf, x, n) ==
    [u \in Units |-> <<x[u]>> \o SubSeq(buf[u], 1, n - 1)]

\* buffer[arange(d1)[:,None], arange(d2), depth_map]
gather(buf, dmap) == [u \in Units |-> buf[u][dmap[u] + 1]]

\* np.zeros((d1,d2,n))
zeros(n) == [u \in Units |-> [k \in 1..n |-> 0]]

\* What state_push appends to the stack: copies.
\* (push_snapshot_Aliased: the variant that stores the live buffer itself, which
\* the push then zeroes.)
push_snapshot_Aliased(buffer, first_call) ==
    <<IF buffer = None THEN None ELSE Some(zeros(Len(buffer[1][1]))), first_call>>

push_snapshot(buffer, first_call) == <<buffer, first_call>>

TS_Init ==
    /\ ts_span \in 0..MaxSpan
    /\ ts_timestep \in Timesteps
    /\ ts_depth = None
    /\ ts_first_call = TRUE
    /\ ts_depth_map = None
    /\ ts_buffer = None
    /\ ts_stack = << >>
    /\ ts_x = None
    /\ ts_last = "init"
    /\ ts_ncalls = 0
    /\ ts_hist = << >>
    /\ ts_clean = TRUE
    /\ ts_saved = << >>
    /\ ts_since = << >>
    /\ ts_expect = None
    /\ ts_raw = None

\* __call__(x) raising on its first-call branch: the depth property raises, or
\* np.zeros refuses a negative depth.
TS_call_raises ==
    /\ ts_first_call
    /\ LET d == depth(ts_span, ts_timestep, ts_depth)
       IN /\ d.raises \/ d.value < 0
          /\ ts_depth' = d.cache
    /\ ts_last' = "call_raised"
    /\ ts_x' = None
    /\ ts_expect' = None
    /\ ts_raw' = None
    /\ UNCHANGED ts_rest
    /\ UNCHANGED <<ts_span, ts_timestep, ts_first_call, ts_depth_map,
                   ts_buffer, ts_stack, ts_ncalls, ts_hist, ts_clean, ts_saved,
                   ts_since>>

\* __call__(x)
TS_call ==
    /\ ts_ncalls < MaxCalls
    /\ \E x \in [Units -> Activities] :
       \E raw \in (IF ts_first_call THEN [Units -> Latencies]
                                      ELSE {[u \in Units |-> 0]}) :
         LET d    == depth(ts_span, ts_timestep, ts_depth)
             n    == IF ts_first_call THEN d.value ELSE Len(ts_buffer[1][1])
             buf0 == IF ts_first_call THEN zeros(n) ELSE ts_buffer[1]
             dmap == IF ts_first_call
                     THEN compute_depth_map(raw, ts_span, n)
                     ELSE ts_depth_map[1]
             buf1 == roll_and_store(buf0, x, n)
         IN /\ ts_first_call => (~d.raises /\ d.value >= 0)
            /\ ts_depth' = IF ts_first_call THEN d.cache ELSE ts_depth
            /\ ts_first_call' = FALSE
            /\ ts_depth_map' = Some(dmap)
            /\ ts_raw' = IF ts_first_call THEN Some(raw) ELSE None
            /\ ts_buffer' = Some(buf1)
            /\ ts_x' = Some(gather(buf1, dmap))
            /\ ts_hist' = IF ts_clean THEN Append(ts_hist, x) ELSE << >>
            /\ ts_since' = IF ts_stack # << >> THEN Append(ts_since, x)
                                               ELSE << >>
            /\ ts_ncalls' = ts_ncalls + 1
    /\ ts_last' = "call"
    /\ ts_expect' = None
    /\ UNCHANGED ts_rest
    /\ UNCHANGED <<ts_span, ts_timestep, ts_stack, ts_clean, ts_saved>>

\* (TS_state_push_KeepsBuffer: the variant of state_push that leaves the live
\* buffer as it is.)
TS_state_push_KeepsBuffer ==
    /\ Len(ts_stack) < MaxStack
    /\ ts_stack' = Append(ts_stack, push_snapshot(ts_buffer, ts_first_call))
    /\ ts_saved' = Append(ts_saved,
                          <<ts_buffer, ts_first_call, ts_ncalls, ts_since>>)
    /\ ts_since' = << >>
    /\ ts_clean' = FALSE
    /\ ts_last' = "push"
    /\ ts_x' = None
    /\ ts_expect' = None
    /\ ts_raw' = None
    /\ ts_hist' = << >>
    /\ UNCHANGED ts_rest
    /\ UNCHANGED <<ts_span, ts_timestep, ts_depth, ts_first_call,
                   ts_depth_map, ts_ncalls, ts_buffer>>

\* state_push()
TS_state_push ==
    /\ Len(ts_stack) < MaxStack
    /\ ts_stack' = Append(ts_stack, push_snapshot(ts_buffer, ts_first_call))
    /\ ts_buffer' = IF ts_buffer = None THEN None
                    ELSE Some(zeros(Len(ts_buffer[1][1])))
    /\ ts_saved' = Append(ts_saved,
                          <<ts_buffer, ts_first_call, ts_ncalls, ts_since>>)
    /\ ts_since' = << >>
    /\ ts_clean' = FALSE
    /\ ts_last' = "push"
    /\ ts_x' = None
    /\ ts_expect' = None
    /\ ts_raw' = None
    /\ ts_hist' = << >>
    /\ UNCHANGED ts_rest
    /\ UNCHANGED <<ts_span, ts_timestep, ts_depth, ts_first_call,
                   ts_depth_map, ts_ncalls>>

\* state_pop()
TS_state_pop ==
    /\ ts_stack # << >>
    /\ ts_buffer' = ts_stack[Len(ts_stack)][1]
    /\ ts_first_call' = ts_stack[Len(ts_stack)][2]
    /\ ts_stack' = SubSeq(ts_stack, 1, Len(ts_stack) - 1)
    /\ ts_expect' = Some(ts_saved[Len(ts_saved)])
    /\ ts_raw' = None
    /\ ts_saved' = SubSeq(ts_saved, 1, Len(ts_saved) - 1)
    /\ ts_since' = ts_saved[Len(ts_saved)][4]
    /\ ts_clean' = FALSE
    /\ ts_last' = "pop"
    /\ ts_x' = None
    /\ ts_hist' = << >>
    /\ UNCHANGED ts_rest
    /\ UNCHANGED <<ts_span, ts_timestep, ts_depth, ts_depth_map, ts_ncalls>>

\* (TS_state_pop_raises_Clears: the variant in which the failing state_pop
\* has dropped the buffer before it raises.)
TS_state_pop_raises_Clears ==
    /\ ts_stack = << >>
    /\ ts_buffer' = None
    /\ ts_clean' = FALSE
    /\ ts_hist' = << >>
    /\ ts_last' = "pop_raised"
    /\ ts_x' = None
    /\ ts_expect' = None
    /\ ts_raw' = None
    /\ UNCHANGED ts_rest
    /\ UNCHANGED <<ts_span, ts_timestep, ts_depth, ts_first_call,
                   ts_depth_map, ts_stack, ts_ncalls, ts_saved, ts_since>>

\* state_pop() on an empty stack: list.pop() raises before anything is assigned.
TS_state_pop_raises ==
    /\ ts_stack = << >>
    /\ ts_clean' = FALSE
    /\ ts_hist' = << >>
    /\ ts_last' = "pop_raised"
    /\ ts_x' = None
    /\ ts_expect' = None
    /\ ts_raw' = None
    /\ UNCHANGED ts_rest
    /\ UNCHANGED <<ts_span, ts_timestep, ts_depth, ts_first_call,
                   ts_depth_map, ts_buffer, ts_stack, ts_ncalls, ts_saved,
                   ts_since>>

TS_Next ==
    \/ TS_call
    \/ TS_call_raises
    \/ TS_state_push
    \/ TS_state_pop
    \/ TS_state_pop_raises

----------------------------------------------------------------------------
(* HomeostaticResponse *)

\* The numbers of HomeostaticResponse are exact rationals, held as integer
\* multiples of 1/Scale: smoothing is SmoothNum/SmoothDen, and a value that
\* went through k threshold updates is a multiple of Scale/SmoothDen^k.
SmoothNum == 1
SmoothDen == 2
RECURSIVE Power(_, _)
Power(b, e) == IF e = 0 THEN 1 ELSE b * Power(b, e - 1)
Scale == Power(SmoothDen, MaxHRCalls)

\* parameters t_init, target_activity (times Scale) and learning_rate
t_init == 1 * Scale
target_activity == 1 * Scale
learning_rate == 1
\* The input matrices of HomeostaticResponse: each unit is silent (0) in one
\* and active (4) in the other.
HR_Inputs == { [u \in Units |-> IF u = a THEN 4 * Scale ELSE 0] : a \in Units }
\* Values of the parameter period.
Periods == {0, 1, 2}
\* Values of the parameter linear_slope.
Slopes == {2}

\* np.ones(x.shape, x.dtype.char) * v
ones_times(v) == [u \in Units |-> v]

\* (apply_threshold_LeavesInput: the variant that leaves the caller's matrix
\* as it was passed in.)
apply_threshold_LeavesInput(x, t, slope) == x

\* clip_lower(x - t, 0), times linear_slope unless it is 1
apply_threshold(x, t, slope) ==
    [u \in Units |->
        LET c == IF x[u] - t[u] < 0 THEN 0 ELSE x[u] - t[u]
        IN IF slope # 1 THEN c * slope ELSE c]

\* _update_threshold: <<y_avg, t>>
\* (update_threshold_IgnoresPlastic: the variant that returns the new values
\* whatever plastic is; update_threshold_StaleAverage: the variant that moves t
\* by the previous smoothed average.)
update_threshold_IgnoresPlastic(prev_t, x, prev_avg, plastic) ==
    LET y_avg == [u \in Units |->
                    ((SmoothDen - SmoothNum) * x[u] + SmoothNum * prev_avg[u])
                        \div SmoothDen]
        t     == [u \in Units |->
                    prev_t[u] + learning_rate * (y_avg[u] - target_activity)]
    IN <<y_avg, t>>

update_threshold_StaleAverage(prev_t, x, prev_avg, plastic) ==
    LET y_avg == [u \in Units |->
                    ((SmoothDen - SmoothNum) * x[u] + SmoothNum * prev_avg[u])
                        \div SmoothDen]
        t     == [u \in Units |->
                    prev_t[u] + learning_rate * (prev_avg[u] - target_activity)]
    IN IF plastic THEN <<y_avg, t>> ELSE <<prev_avg, prev_t>>

update_threshold(prev_t, x, prev_avg, plastic) ==
    LET y_avg == [u \in Units |->
                    ((SmoothDen - SmoothNum) * x[u] + SmoothNum * prev_avg[u])
                        \div SmoothDen]
        t     == [u \in Units |->
                    prev_t[u] + learning_rate * (y_avg[u] - target_activity)]
    IN IF plastic THEN <<y_avg, t>> ELSE <<prev_avg, prev_t>>

\* What state_push appends to the stack, in the order state_pop unpacks it.
\* (hr_snapshot_Swapped: the variant with t and y_avg in the other order.)
hr_snapshot_Swapped(t, y_avg, first_call, next_update, y_avg_prev, x_prev) ==
    <<y_avg, t, first_call, next_update, y_avg_prev, x_prev>>

\* (hr_snapshot_PrevFromActivity: the variant that stores _x_prev in the place
\* of _y_avg_prev.)
hr_snapshot_PrevFromActivity(t, y_avg, first_call, next_update, prev, x_prev) ==
    <<t, y_avg, first_call, next_update, x_prev, x_prev>>

hr_snapshot(t, y_avg, first_call, next_update, y_avg_prev, x_prev) ==
    <<t, y_avg, first_call, next_update, y_avg_prev, x_prev>>

\* __init__ at clock value now
HR_Init ==
    /\ now \in {0, 1}
    /\ hr_period \in Periods
    /\ hr_linear_slope \in Slopes
    /\ hr_plastic = TRUE
    /\ hr_first_call = TRUE
    /\ hr_stack = << >>
    /\ hr_t = None
    /\ hr_y_avg = None
    /\ hr_next_update = now + hr_period
    /\ hr_y_avg_prev = None
    /\ hr_x_prev = None
    /\ hr_x = None
    /\ hr_in = None
    /\ hr_last = "init"
    /\ hr_updated = FALSE
    /\ hr_src = "none"
    /\ hr_ncalls = 0
    /\ hr_before = None
    /\ hr_adj_slot = None
    /\ hr_adj_again = FALSE
    /\ hr_saved = << >>
    /\ hr_expect = None

\* __call__(x)
HR_call ==
    /\ hr_ncalls < MaxHRCalls
    /\ \E x \in HR_Inputs :
         LET \* _initialize(x) on the first call
             x_prev0 == IF hr_first_call THEN x ELSE hr_x_prev[1]
             yprev0  == IF hr_first_call THEN ones_times(target_activity)
                                         ELSE hr_y_avg_prev[1]
             t0      == IF hr_first_call THEN ones_times(t_init) ELSE hr_t[1]
             y0      == IF hr_first_call THEN ones_times(target_activity)
                                         ELSE hr_y_avg[1]
             due     == now > hr_next_update
             upd     == update_threshold(t0, x_prev0, yprev0, hr_plastic)
             y1      == IF due THEN upd[1] ELSE y0
             t1      == IF due THEN upd[2] ELSE t0
             yprev1  == IF due THEN y1 ELSE yprev0
             out     == apply_threshold(x, t1, hr_linear_slope)
             slot    == IF hr_period > 0 THEN Some(now \div hr_period) ELSE None
         IN /\ hr_first_call' = FALSE
            /\ hr_next_update' = IF due THEN hr_next_update + hr_period
                                        ELSE hr_next_update
            /\ hr_y_avg' = Some(y1)
            /\ hr_t' = Some(t1)
            /\ hr_y_avg_prev' = Some(yprev1)
            /\ hr_x_prev' = Some(out)
            /\ hr_x' = Some(out)
            /\ hr_in' = Some(x)
            /\ hr_updated' = due
            /\ hr_src' = IF ~due THEN "none"
                         ELSE IF hr_first_call THEN "this call"
                         ELSE "a previous call"
            /\ hr_adj_slot' = IF due /\ hr_plastic THEN slot ELSE hr_adj_slot
            /\ hr_adj_again' = (due /\ hr_plastic /\ slot # None
                                    /\ hr_adj_slot = slot)
    /\ hr_before' = Some(<<hr_t, hr_y_avg, hr_first_call>>)
    /\ hr_ncalls' = hr_ncalls + 1
    /\ hr_last' = "call"
    /\ hr_expect' = None
    /\ UNCHANGED hr_rest
    /\ UNCHANGED <<now, hr_period, hr_linear_slope, hr_plastic, hr_stack,
                   hr_saved>>

\* state_push()
HR_state_push ==
    /\ Len(hr_stack) < MaxStack
    /\ hr_stack' = Append(hr_stack,
                          hr_snapshot(hr_t, hr_y_avg, hr_first_call,
                                      hr_next_update, hr_y_avg_prev, hr_x_prev))
    /\ hr_saved' = Append(hr_saved,
                          <<hr_t, hr_y_avg, hr_first_call, hr_next_update,
                            hr_y_avg_prev, hr_x_prev, hr_ncalls, now>>)
    /\ hr_last' = "push"
    /\ hr_x' = None /\ hr_in' = None /\ hr_updated' = FALSE
    /\ hr_src' = "none"
    /\ hr_before' = None /\ hr_expect' = None
    /\ hr_adj_slot' = None
    /\ UNCHANGED hr_rest
    /\ UNCHANGED <<now, hr_period, hr_linear_slope, hr_plastic, hr_first_call,
                   hr_t, hr_y_avg, hr_next_update, hr_y_avg_prev, hr_x_prev,
                   hr_ncalls>>
    /\ hr_adj_again' = FALSE

\* state_pop()
HR_state_pop ==
    /\ hr_stack # << >>
    /\ LET top == hr_stack[Len(hr_stack)]
       IN /\ hr_t' = top[1]
          /\ hr_y_avg' = top[2]
          /\ hr_first_call' = top[3]
          /\ hr_next_update' = top[4]
          /\ hr_y_avg_prev' = top[5]
          /\ hr_x_prev' = top[6]
    /\ hr_stack' = SubSeq(hr_stack, 1, Len(hr_stack) - 1)
    /\ hr_expect' = Some(hr_saved[Len(hr_saved)])
    /\ hr_saved' = SubSeq(hr_saved, 1, Len(hr_saved) - 1)
    /\ hr_last' = "pop"
    /\ hr_x' = None /\ hr_in' = None /\ hr_updated' = FALSE
    /\ hr_src' = "none"
    /\ hr_before' = None
    /\ hr_adj_slot' = None
    /\ UNCHANGED hr_rest
    /\ UNCHANGED <<now, hr_period, hr_linear_slope, hr_plastic, hr_ncalls>>
    /\ hr_adj_again' = FALSE

\* state_pop() on an empty stack: list.pop() raises before anything is assigned.
HR_state_pop_raises ==
    /\ hr_stack = << >>
    /\ hr_last' = "pop_raised"
    /\ hr_x' = None /\ hr_in' = None /\ hr_updated' = FALSE
    /\ hr_src' = "none"
    /\ hr_before' = None /\ hr_expect' = None
    /\ UNCHANGED hr_rest
    /\ UNCHANGED <<now, hr_period, hr_linear_slope, hr_plastic, hr_first_call,
                   hr_t, hr_y_avg, hr_next_update, hr_y_avg_prev, hr_x_prev,
                   hr_stack, hr_ncalls, hr_adj_slot, hr_saved>>
    /\ hr_adj_again' = FALSE

\* the host sets the parameter plastic
HR_set_plastic ==
    /\ hr_plastic' = ~hr_plastic
    /\ hr_last' = "set_plastic"
    /\ hr_x' = None /\ hr_in' = None /\ hr_updated' = FALSE
    /\ hr_src' = "none"
    /\ hr_before' = None /\ hr_expect' = None
    /\ UNCHANGED hr_rest
    /\ UNCHANGED <<now, hr_period, hr_linear_slope, hr_first_call, hr_t,
                   hr_y_avg, hr_next_update, hr_y_avg_prev, hr_x_prev, hr_stack,
                   hr_ncalls, hr_adj_slot, hr_saved>>
    /\ hr_adj_again' = FALSE

\* the simulation clock advances, by any amount
HR_clock_advance ==
    /\ \E later \in (now + 1)..MaxTime : now' = later
    /\ hr_last' = "clock"
    /\ hr_x' = None /\ hr_in' = None /\ hr_updated' = FALSE
    /\ hr_src' = "none"
    /\ hr_before' = Some(<<hr_t, hr_y_avg, hr_first_call>>)
    /\ hr_expect' = None
    /\ UNCHANGED hr_rest
    /\ UNCHANGED <<hr_period, hr_linear_slope, hr_plastic, hr_first_call, hr_t,
                   hr_y_avg, hr_next_update, hr_y_avg_prev, hr_x_prev, hr_stack,
                   hr_ncalls, hr_adj_slot, hr_saved>>
    /\ hr_adj_again' = FALSE

HR_Next ==
    \/ HR_call
    \/ HR_state_push
    \/ HR_state_pop
    \/ HR_state_pop_raises
    \/ HR_set_plastic
    \/ HR_clock_advance

----------------------------------------------------------------------------
(* AttributeTrackingTF *)

\* Values of the parameter step.
Steps == 1..MaxStep
\* What the parameter object denotes (after eval, when it is given as a string):
\* a SheetCoordinateSystem ("Sheet") or another Parameterized ("Other"); both
\* have the tracked attribute "a".
ObjectKinds == {"Sheet", "Other"}
\* The parameter coordframe: None, a string naming a coordinate frame, or a
\* SheetCoordinateSystem object.
CoordframeKinds == {"None", "Str", "Sheet"}
\* parameter attrib_names: the incoming activity "x" and the attribute "a"
attrib_names == <<"x", "a">>
\* parameter units: the sheet coordinates (x, 0.0) tracked, x in quarters:
\* (-0.25, 0.0) and (0.0, 0.0)
units == <<-1, 0>>
\* The input matrices of AttributeTrackingTF.
AT_Inputs == { [u \in Units |-> IF u = a THEN 1 ELSE 0] : a \in Units }
\* The values the attribute "a" of the tracked object can have at a call.
AT_AttrValues == { [u \in Units |-> 4 + u], [u \in Units |-> 6 + u] }

\* SheetCoordinateSystem.sheet2matrixidx(x, 0.0) of a 1 x 2 sheet of density 2
\* with bounds of radius 0.5: column floor((x + 0.5) * 2), as a unit
sheet2matrixidx(q) == ((q + 2) \div 2) + 1

\* The resolution of the coordinate frame on a call with _coordframe == None:
\* [raises |-> a ValueError is raised, frame |-> _coordframe afterwards]
resolve_coordframe(object, coordframe) ==
    IF coordframe = "Str" /\ object = "Sheet"
    THEN [raises |-> TRUE, frame |-> None]
    ELSE IF object = "Sheet"
         THEN [raises |-> FALSE, frame |-> Some("object")]
         ELSE IF coordframe = "Str"
              THEN [raises |-> FALSE, frame |-> Some("coordframe")]
              ELSE [raises |-> TRUE, frame |-> None]

\* The step counter of a call: <<n_step afterwards, whether the call is one
\* on which values are collected>>
\* (count_step_ResetOnlyIfPlastic: the variant that resets n_step only when
\* plastic is true.)
count_step_ResetOnlyIfPlastic(n_step, step, plastic) ==
    IF n_step + 1 = step /\ plastic THEN <<0, TRUE>> ELSE <<n_step + 1, FALSE>>

count_step(n_step, step, plastic) ==
    IF n_step + 1 = step THEN <<0, plastic>> ELSE <<n_step + 1, FALSE>>

\* values after (time, value_matrix[mat_u]) was appended for every attribute
\* and unit
append_samples(values, time, x, a) ==
    [p \in DOMAIN values |->
        [c \in DOMAIN values[p] |->
            Append(values[p][c],
                   <<time, (IF p = "x" THEN x ELSE a)[sheet2matrixidx(c)]>>)]]

\* self.values as __init__ builds it
empty_values ==
    [p \in {attrib_names[i] : i \in DOMAIN attrib_names} |->
        [c \in {units[i] : i \in DOMAIN units} |-> << >>]]

AT_Init ==
    /\ now = 0
    /\ at_step \in Steps
    /\ at_object \in ObjectKinds
    /\ at_coordframe \in CoordframeKinds
    /\ at_plastic = TRUE
    /\ at_values = empty_values
    /\ at_n_step = 0
    /\ at__object = None
    /\ at__coordframe = None
    /\ at_last = "none"
    /\ at_ncalls = 0
    /\ at_log = empty_values

\* __call__(x) raising the ValueError of the coordinate frame resolution
AT_call_raises ==
    /\ at__coordframe = None
    /\ resolve_coordframe(at_object, at_coordframe).raises
    /\ at__object' = Some(at_object)
    /\ at_last' = "raised"
    /\ UNCHANGED at_rest
    /\ UNCHANGED <<now, at_step, at_object, at_coordframe,
                   at_plastic, at_values, at_n_step, at__coordframe, at_ncalls,
                   at_log>>

\* __call__(x), the tracked object's attribute "a" being a
AT_call ==
    /\ at_ncalls < MaxATCalls
    /\ \E x \in AT_Inputs : \E a \in AT_AttrValues :
         LET r == IF at__coordframe = None
                  THEN resolve_coordframe(at_object, at_coordframe)
                  ELSE [raises |-> FALSE, frame |-> at__coordframe]
             c == count_step(at_n_step, at_step, at_plastic)
         IN /\ ~r.raises
            /\ at__object' = Some(at_object)
            /\ at__coordframe' = r.frame
            /\ at_n_step' = c[1]
            /\ at_values' = IF c[2] THEN append_samples(at_values, now, x, a)
                                    ELSE at_values
            /\ at_log' = IF (at_ncalls + 1) % at_step = 0 /\ at_plastic
                         THEN [p \in DOMAIN at_log |->
                                 [q \in DOMAIN at_log[p] |->
                                    Append(at_log[p][q],
                                           <<now, IF p = "x"
                                                  THEN x[sheet2matrixidx(q)]
                                                  ELSE a[sheet2matrixidx(q)]>>)]]
                         ELSE at_log
    /\ at_ncalls' = at_ncalls + 1
    /\ at_last' = "returned"
    /\ UNCHANGED at_rest
    /\ UNCHANGED <<now, at_step, at_object, at_coordframe,
                   at_plastic>>

\* the host sets the parameter plastic
AT_set_plastic ==
    /\ at_plastic' = ~at_plastic
    /\ UNCHANGED at_rest
    /\ UNCHANGED <<now, at_step, at_object, at_coordframe, at_values,
                   at_n_step, at__object, at__coordframe, at_last, at_ncalls,
                   at_log>>

\* the simulation clock advances, by any amount
AT_clock_advance ==
    /\ \E later \in (now + 1)..MaxTime : now' = later
    /\ UNCHANGED at_rest
    /\ UNCHANGED <<at_step, at_object, at_coordframe, at_plastic, at_values,
                   at_n_step, at__object, at__coordframe, at_last, at_ncalls,
                   at_log>>

AT_Next ==
    \/ AT_call
    \/ AT_call_raises
    \/ AT_set_plastic
    \/ AT_clock_advance

----------------------------------------------------------------------------
(* HalfRectify *)

\* The numbers of HalfRectify are exact: activities, thresholds and noise are
\* in tenths, the gain is a whole number.
\* Values of the parameter t_init (0.0, 0.2, 0.4).
HF_Thresholds == {0, 2, 4}
\* Values of the parameter gain.
HF_Gains == {1, 2}
\* The input matrices of HalfRectify: every unit has 0.1, 0.3 or 0.5.
HF_Inputs == [Units -> {1, 3, 5}]
\* (UniformRandom()(...) - 0.5) * noise_magnitude * 2 with noise_magnitude 0.1:
\* per unit a value from -0.1 to 0.1
HF_Noise == [Units -> {-1, 0, 1}]

\* x -= self.t; clip_lower(x,0); x *= self.gain
\* (rectify_GainFirst: the variant that multiplies by the gain before it
\* subtracts the threshold.)
rectify_GainFirst(x, t, gain) ==
    [u \in Units |->
        IF gain * x[u] - t[u] < 0 THEN 0 ELSE gain * x[u] - t[u]]

rectify(x, t, gain) ==
    [u \in Units |-> (IF x[u] - t[u] < 0 THEN 0 ELSE x[u] - t[u]) * gain]

HF_Init ==
    /\ hf_t_init \in HF_Thresholds
    /\ hf_gain \in HF_Gains
    /\ hf_randomized_init \in BOOLEAN
    /\ hf_first_call = TRUE
    /\ hf_t = None
    /\ hf_x = None
    /\ hf_in = None
    /\ hf_ncalls = 0

\* __call__(x)
HF_call ==
    /\ hf_ncalls < MaxHFCalls
    /\ \E x \in HF_Inputs :
       \E noise \in (IF hf_first_call /\ hf_randomized_init
                     THEN HF_Noise ELSE {[u \in Units |-> 0]}) :
         LET t == IF hf_first_call
                  THEN [u \in Units |-> 1 * hf_t_init + noise[u]]
                  ELSE hf_t[1]
         IN /\ hf_t' = Some(t)
            /\ hf_x' = Some(rectify(x, t, hf_gain))
            /\ hf_in' = Some(x)
    /\ hf_first_call' = FALSE
    /\ hf_ncalls' = hf_ncalls + 1
    /\ UNCHANGED hf_rest
    /\ UNCHANGED <<hf_t_init, hf_gain, hf_randomized_init>>

HF_Next == HF_call

----------------------------------------------------------------------------
(* KernelMax *)

\* A matrix of shape (rows, cols) given to KernelMax is a function from its
\* positions (r, c), counted from 0 as in the source, to numbers.
Pos(rows, cols) == (0..(rows - 1)) \X (0..(cols - 1))
\* Values of the parameter kernel_radius, in quarters (0, 0.25, 0.75).
KM_Radii == {0, 1, 3}
\* Values of the parameter density.
KM_Densities == {1, 2}
\* Values of the parameter crop_radius_multiplier.
KM_Multipliers == {1, 3}
\* The input matrices of KernelMax: the value 2 at one position, the value 1
\* or 2 at another (or the same) position, 0 elsewhere.
KM_Inputs(rows, cols) ==
    { [p \in Pos(rows, cols) |-> IF p = a THEN 2 ELSE IF p = b THEN v ELSE 0] :
        <<a, b, v>> \in Pos(rows, cols) \X Pos(rows, cols) \X {1, 2} }
\* What the neighborhood kernel generator returns, as (value at the winner,
\* value at every other position of the bounding box)
KM_Kernels == {<<1, 0>>, <<1, 1>>, <<2, 1>>}

\* array_argmax(x): the position of the maximum, the first one in row-major
\* order when there are several
array_argmax(x, rows, cols) ==
    CHOOSE p \in Pos(rows, cols) :
        /\ \A q \in Pos(rows, cols) : x[q] <= x[p]
        /\ \A q \in Pos(rows, cols) :
              x[q] = x[p] => p[1] * cols + p[2] <= q[1] * cols + q[2]

\* int(max(1.25, radius * crop_radius_multiplier)) with
\* radius = density * kernel_radius; the product is in quarters and positive,
\* where int() rounds down
\* (crop_radius_Ceil: the variant that rounds up.)
crop_radius_Ceil(kernel_radius, density, crop_radius_multiplier) ==
    LET radius == density * kernel_radius
        m      == IF radius * crop_radius_multiplier > 5
                  THEN radius * crop_radius_multiplier ELSE 5
    IN (m + 3) \div 4

crop_radius(kernel_radius, density, crop_radius_multiplier) ==
    LET radius == density * kernel_radius
        m      == IF radius * crop_radius_multiplier > 5
                  THEN radius * crop_radius_multiplier ELSE 5
    IN m \div 4

Max(a, b) == IF a >= b THEN a ELSE b
Min(a, b) == IF a <= b THEN a ELSE b

\* the bounding box around the winner (wr, wc)
\* (bounding_box_Unclipped: the variant without max(., 0) and min(., rows),
\* min(., cols).)
bounding_box_Unclipped(rows, cols, wr, wc, cr) ==
    LET wy == rows - wr - 1
    IN [crop_radius |-> cr,
        cmin |-> wc - cr, cmax |-> wc + cr + 1,
        rmin |-> wr - cr, rmax |-> wr + cr + 1,
        ymin |-> wy - cr, ymax |-> wy + cr + 1]

\* (bounding_box_FlipOffByOne: the variant with wy = rows - wr.)
bounding_box_FlipOffByOne(rows, cols, wr, wc, cr) ==
    LET wy == rows - wr
    IN [crop_radius |-> cr,
        cmin |-> Max(wc - cr, 0), cmax |-> Min(wc + cr + 1, cols),
        rmin |-> Max(wr - cr, 0), rmax |-> Min(wr + cr + 1, rows),
        ymin |-> Max(wy - cr, 0), ymax |-> Min(wy + cr + 1, rows)]

bounding_box(rows, cols, wr, wc, cr) ==
    LET wy == rows - wr - 1
    IN [crop_radius |-> cr,
        cmin |-> Max(wc - cr, 0), cmax |-> Min(wc + cr + 1, cols),
        rmin |-> Max(wr - cr, 0), rmax |-> Min(wr + cr + 1, rows),
        ymin |-> Max(wy - cr, 0), ymax |-> Min(wy + cr + 1, rows)]

\* x *= 0.0; x[rmin:rmax,cmin:cmax] = kernel
place_kernel(rows, cols, box, win, kernel) ==
    [p \in Pos(rows, cols) |->
        IF /\ box.rmin <= p[1] /\ p[1] < box.rmax
           /\ box.cmin <= p[2] /\ p[2] < box.cmax
        THEN IF p = win THEN kernel[1] ELSE kernel[2]
        ELSE 0]

KM_Init ==
    /\ km_rows \in 1..MaxDim
    /\ km_cols \in 1..MaxDim
    /\ km_kernel_radius \in KM_Radii
    /\ km_density \in KM_Densities
    /\ km_crop_radius_multiplier \in KM_Multipliers
    /\ km_given \in KM_Inputs(km_rows, km_cols)
    /\ km_x = None
    /\ km_win = None
    /\ km_box = None
    /\ km_repeat = None

\* __call__(x) with x a copy of km_given, the kernel generator returning kernel
KM_call ==
    /\ \E kernel \in KM_Kernels :
       \E win \in {array_argmax(km_given, km_rows, km_cols)} :
       \E box \in {bounding_box(km_rows, km_cols, win[1], win[2],
                                crop_radius(km_kernel_radius, km_density,
                                            km_crop_radius_multiplier))} :
            /\ km_win' = Some(win)
            /\ km_box' = Some(box)
            /\ km_x' = Some(place_kernel(km_rows, km_cols, box, win, kernel))
            /\ km_repeat' = km_win
    /\ UNCHANGED km_rest
    /\ UNCHANGED <<km_rows, km_cols, km_kernel_radius, km_density,
                   km_crop_radius_multiplier, km_given>>

KM_Next == KM_call

----------------------------------------------------------------------------
(* The specifications: one transfer function instance each *)

\* an instance of TemporalScatter that is not used
TS_Idle ==
    /\ ts_span = 1 /\ ts_timestep = 1 /\ ts_depth = None
    /\ ts_first_call = TRUE /\ ts_depth_map = None /\ ts_buffer = None
    /\ ts_stack = << >> /\ ts_x = None /\ ts_last = "init" /\ ts_ncalls = 0
    /\ ts_hist = << >> /\ ts_clean = TRUE /\ ts_saved = << >>
    /\ ts_since = << >>
    /\ ts_expect = None
    /\ ts_raw = None

\* an instance of HomeostaticResponse that is not used
HR_Idle ==
    /\ hr_period = 1 /\ hr_linear_slope = 1 /\ hr_plastic = TRUE
    /\ hr_first_call = TRUE /\ hr_stack = << >> /\ hr_t = None
    /\ hr_y_avg = None /\ hr_next_update = 1 /\ hr_y_avg_prev = None
    /\ hr_x_prev = None /\ hr_x = None /\ hr_in = None /\ hr_last = "init"
    /\ hr_updated = FALSE /\ hr_src = "none" /\ hr_ncalls = 0
    /\ hr_before = None
    /\ hr_adj_slot = None /\ hr_adj_again = FALSE /\ hr_saved = << >>
    /\ hr_expect = None

\* an instance of HalfRectify that is not used
HF_Idle ==
    /\ hf_t_init = 0 /\ hf_gain = 1 /\ hf_randomized_init = FALSE
    /\ hf_first_call = TRUE /\ hf_t = None /\ hf_x = None /\ hf_in = None
    /\ hf_ncalls = 0

\* an instance of KernelMax that is not used
KM_Idle ==
    /\ km_rows = 1 /\ km_cols = 1 /\ km_kernel_radius = 0 /\ km_density = 1
    /\ km_crop_radius_multiplier = 3 /\ km_x = None
    /\ km_given = [p \in Pos(1, 1) |-> 0]
    /\ km_win = None /\ km_box = None /\ km_repeat = None

\* an instance of AttributeTrackingTF that is not used
AT_Idle ==
    /\ at_step = 1 /\ at_object = "Sheet"
    /\ at_coordframe = "None" /\ at_plastic = TRUE /\ at_values = empty_values
    /\ at_n_step = 0 /\ at__object = None /\ at__coordframe = None
    /\ at_last = "none" /\ at_ncalls = 0 /\ at_log = empty_values

InitTS ==
    inst = "TS" /\ TS_Init /\ now = 0 /\ HR_Idle /\ AT_Idle /\ HF_Idle
    /\ KM_Idle

SpecTS == InitTS /\ [][TS_Next]_vars

InitHR ==
    inst = "HR" /\ HR_Init /\ TS_Idle /\ AT_Idle /\ HF_Idle /\ KM_Idle

SpecHR == InitHR /\ [][HR_Next]_vars

InitAT ==
    inst = "AT" /\ AT_Init /\ TS_Idle /\ HR_Idle /\ HF_Idle /\ KM_Idle

SpecAT == InitAT /\ [][AT_Next]_vars

InitHF ==
    /\ inst = "HalfRectify" /\ HF_Init /\ now = 0
    /\ TS_Idle /\ HR_Idle /\ AT_Idle /\ KM_Idle

SpecHF == InitHF /\ [][HF_Next]_vars

InitKM ==
    /\ inst = "KernelMax" /\ KM_Init /\ now = 0
    /\ TS_Idle /\ HR_Idle /\ AT_Idle /\ HF_Idle

SpecKM == InitKM /\ [][KM_Next]_vars

\* one instance of a class with a private state stack: a TemporalScatter of
\* timestep 1 and span 0 (every call raises) or 2 (depth 2), or a HomeostaticResponse of period 1 constructed at
\* time 0
InitStacked ==
    \/ InitTS /\ ts_timestep = 1 /\ ts_span \in {0, 2}
    \/ InitHR /\ hr_period = 1 /\ now = 0

NextStacked ==
    \/ inst = "TS" /\ TS_Next
    \/ inst = "HR" /\ HR_Next

SpecStacked == InitStacked /\ [][NextStacked]_vars

----------------------------------------------------------------------------
(* Properties of TemporalScatter, checked under SpecTS *)

\* C1 (delay law): while no state_push/state_pop has been made, the value call
\* number n writes back for a unit whose depth-map bin is d is the value the
\* unit had in the input of call n-d, and 0 when there was no call n-d; so it
\* is a function of the inputs of the calls 1..n alone.
TS_C1_DelayLaw ==
    (ts_clean /\ ts_last = "call") =>
        \A u \in Units :
            LET n == Len(ts_hist)
                d == ts_depth_map[1][u]
            IN /\ n = ts_ncalls
               /\ ts_x[1][u] = IF n - d >= 1 THEN ts_hist[n - d][u] ELSE 0

\* The third call of an instance of depth 3: unit 1 (bin 2) gives back its
\* input of call 1, unit 2 (bin 0) its input of this call.
TS_C1_Witness ==
    /\ ts_clean /\ ts_last = "call" /\ Len(ts_hist) = 3
    /\ ts_depth_map[1][1] = 2 /\ ts_depth_map[1][2] = 0
    /\ ts_hist[1][1] = 1 /\ ts_hist[2][1] = 0 /\ ts_hist[3][1] = 0
    /\ ts_hist[3][2] = 1
    /\ ts_x[1] = [u \in Units |-> 1]

\* C2 (checkpoint round trip): a state_pop leaves the activity buffer and the
\* first_call flag with the values they had just before the matching
\* state_push, whatever calls were made in between.
TS_C2_RoundTrip ==
    (ts_last = "pop") =>
        /\ ts_buffer = ts_expect[1][1]
        /\ ts_first_call = ts_expect[1][2]

\* A pop that restores a buffer holding a nonzero activity, after a call made
\* since the matching push.
TS_C2_Witness ==
    /\ ts_last = "pop"
    /\ ts_expect[1][1] # None
    /\ \E u \in Units : ts_expect[1][1][1][u][1] = 1
    /\ ts_ncalls > ts_expect[1][3]
    /\ ts_buffer = ts_expect[1][1]
    /\ ts_first_call = FALSE

\* C3 (depth map fixed): once computed, the depth map never changes.
TS_C3_DepthMapFixed ==
    [][ts_depth_map # None => ts_depth_map' = ts_depth_map]_vars

\* span is an exact positive multiple of timestep
ExactPositiveMultiple ==
    /\ ts_timestep > 0
    /\ ts_span % ts_timestep = 0
    /\ ts_span \div ts_timestep > 0

\* the condition under which the code refuses the configuration:
\* span % timestep != 0 or span // timestep == 0 (either of which divides by zero
\* when timestep is 0)
DepthRefused ==
    \/ ts_timestep = 0
    \/ PyMod(ts_span, ts_timestep) # 0
    \/ PyFloorDiv(ts_span, ts_timestep) = 0

\* C4 (configuration error): every instance is constructed; when span is not
\* an exact positive multiple of timestep no call ever succeeds, first_call
\* stays true and the buffer and the depth map stay unallocated, and under the
\* refusal condition no access to depth ever returns; when span is an exact
\* positive multiple, depth is span / timestep and the buffer has that depth.
TS_C4_ConfigError ==
    /\ ~ExactPositiveMultiple =>
           /\ ts_last # "call"
           /\ ts_first_call
           /\ ts_buffer = None
           /\ ts_depth_map = None
    /\ DepthRefused => ts_depth = None
    /\ ExactPositiveMultiple =>
           /\ ts_depth \in {None, Some(ts_span \div ts_timestep)}
           /\ ts_last = "call" =>
                  /\ ts_depth = Some(ts_span \div ts_timestep)
                  /\ \A u \in Units :
                        Len(ts_buffer[1][u]) = ts_span \div ts_timestep

\* A first call that raised because span (3) is no multiple of timestep (2).
TS_C4_Witness ==
    /\ ts_span = 3 /\ ts_timestep = 2
    /\ ts_last = "call_raised"
    /\ ts_first_call /\ ts_buffer = None /\ ts_depth_map = None
    /\ ts_depth = None

\* A successful call of an instance with span 3 and timestep 1: depth 3.
TS_C4_WitnessValid ==
    /\ ts_span = 3 /\ ts_timestep = 1
    /\ ts_last = "call"
    /\ ts_depth = Some(3)


----------------------------------------------------------------------------
(* Properties of HomeostaticResponse, checked under SpecHR *)

\* C5 (plastic=False freezes the controller): a call made while plastic is
\* false leaves t and y_avg as they were (the first call leaves them at their
\* initial values, t_init and target_activity), also when its scheduled
\* update triggers; a clock advance never changes them.
HR_C5_NotPlasticFrozen ==
    /\ (hr_last = "call" /\ ~hr_plastic) =>
          IF hr_before[1][3]
          THEN /\ hr_t = Some(ones_times(t_init))
               /\ hr_y_avg = Some(ones_times(target_activity))
          ELSE /\ hr_t = hr_before[1][1]
               /\ hr_y_avg = hr_before[1][2]
    /\ (hr_last = "clock") =>
          /\ hr_t = hr_before[1][1]
          /\ hr_y_avg = hr_before[1][2]

\* A call after the first, with plastic false, on which the scheduled update
\* triggered, made after earlier calls had adapted the threshold.
HR_C5_Witness ==
    /\ hr_last = "call" /\ ~hr_plastic /\ hr_updated
    /\ ~hr_before[1][3]
    /\ hr_t # Some(ones_times(t_init))
    /\ hr_t = hr_before[1][1]
    /\ hr_y_avg = hr_before[1][2]

\* C6 (period 0 updates on every call): with period = 0 every call runs the
\* threshold update step.
HR_C6_UpdateEveryCall ==
    (hr_period = 0 /\ hr_last = "call") => hr_updated

\* C7 (direction of the adjustment): with period = 0, plastic and a positive
\* learning rate, a call after the first leaves the threshold of a unit
\* strictly higher when the unit's smoothed average (as the call leaves it)
\* exceeds target_activity, and strictly lower when it is below.
HR_C7_Direction ==
    (/\ hr_last = "call" /\ hr_period = 0 /\ hr_plastic /\ learning_rate > 0
     /\ ~hr_before[1][3]) =>
        \A u \in Units :
            /\ hr_y_avg[1][u] > target_activity =>
                   hr_t[1][u] > hr_before[1][1][1][u]
            /\ hr_y_avg[1][u] < target_activity =>
                   hr_t[1][u] < hr_before[1][1][1][u]

\* A second call that raised the threshold of one unit and lowered that of
\* the other.
HR_C7_Witness ==
    /\ hr_last = "call" /\ hr_period = 0 /\ hr_plastic /\ hr_updated
    /\ ~hr_before[1][3]
    /\ \E u, v \in Units :
          /\ hr_y_avg[1][u] > target_activity
          /\ hr_t[1][u] > hr_before[1][1][1][u]
          /\ hr_y_avg[1][v] < target_activity
          /\ hr_t[1][v] < hr_before[1][1][1][v]

\* C8 (at most one adjustment per period): with a nonzero period, no call
\* adjusts the threshold between the same two consecutive multiples of the
\* period as the adjustment before it (no state_push/state_pop in between).
HR_C8_OneAdjustmentPerPeriod ==
    (hr_period > 0 /\ hr_last = "call") => ~hr_adj_again

\* the six fields of the instance
HR_fields ==
    <<hr_t, hr_y_avg, hr_first_call, hr_next_update, hr_y_avg_prev, hr_x_prev>>

\* C9 (atomic LIFO snapshot): a state_pop leaves the six fields with the
\* values they had just before the matching state_push, and every snapshot on
\* the stack still holds the values the fields had just before its push.
HR_C9_Snapshot ==
    /\ (hr_last = "pop") =>
           \A i \in 1..6 : HR_fields[i] = hr_expect[1][i]
    /\ Len(hr_stack) = Len(hr_saved)
    /\ \A k \in 1..Len(hr_stack) :
           \A i \in 1..6 : hr_stack[k][i] = hr_saved[k][i]

\* The pop of an inner push, an outer one still open: a call and a clock
\* advance were made since the inner push and changed the live fields, and
\* the pop brought back the threshold adapted before it.
HR_C9_Witness ==
    /\ hr_last = "pop"
    /\ Len(hr_stack) = 1
    /\ hr_ncalls > hr_expect[1][7]
    /\ now > hr_expect[1][8]
    /\ hr_expect[1][1] # None
    /\ hr_t = hr_expect[1][1]
    /\ hr_t # Some(ones_times(t_init))
    /\ hr_x_prev = hr_expect[1][6]
    /\ hr_next_update = hr_expect[1][4]
    /\ hr_stack[1][1] = None

----------------------------------------------------------------------------
(* Properties of AttributeTrackingTF, checked under SpecAT *)

\* C10 (sampling schedule): the log of every configured attribute and unit is
\* the sequence, in call order, of the (simulation time, sampled value) pairs
\* of exactly the calls whose 1-based number is a multiple of step and that
\* were made with plastic true; logged entries are never changed or removed.
AT_C10_Schedule ==
    /\ at_values = at_log
    /\ at_n_step = at_ncalls % at_step

\* Four calls with step 2: the second and the fourth were logged, at
\* different times, and the log of "x" holds the two activities in call order.
AT_C10_Witness ==
    /\ at_step = 2 /\ at_ncalls = 4 /\ at_last = "returned"
    /\ Len(at_values["x"][0]) = 2
    /\ at_values["x"][0][1][1] < at_values["x"][0][2][1]
    /\ at_values["x"][0][1][2] = 1 /\ at_values["x"][0][2][2] = 0
    /\ at_values["x"][-1][2][2] = 1
    /\ Len(at_values["a"][-1]) = 2

\* The configurations the reference errors are specified for: the tracked
\* object is not a coordinate frame and no coordframe is configured, or a
\* string coordframe is configured for an object that is a coordinate frame.
NoFrameOrRedundant ==
    \/ at_object = "Other" /\ at_coordframe = "None"
    \/ at_object = "Sheet" /\ at_coordframe = "Str"

\* C11 (reference errors): a call fails with the ValueError exactly in the
\* configurations NoFrameOrRedundant, and in no other one; a failing call
\* appends nothing to any log and leaves the step counter where it was.
AT_C11_ReferenceErrors ==
    /\ at_last = "raised" => NoFrameOrRedundant
    /\ at_last = "returned" => ~NoFrameOrRedundant
    /\ at_last = "raised" => at_values = empty_values /\ at_n_step = 0

\* C20 (coordframe given as an object): with a SheetCoordinateSystem object
\* as coordframe and a tracked object that is no coordinate frame, a call
\* does not raise and uses the configured object as the coordinate frame.
AT_C20_CoordframeObject ==
    (at_object = "Other" /\ at_coordframe = "Sheet" /\ at__object # None)
        => at_last = "returned" /\ at__coordframe = Some("coordframe")

----------------------------------------------------------------------------
(* Properties of the private state stacks, checked under SpecStacked *)

\* the live state fields of a TemporalScatter
TS_live == <<ts_first_call, ts_buffer, ts_depth_map, ts_depth, ts_stack>>

\* the live state fields of a HomeostaticResponse
HR_live == <<hr_t, hr_y_avg, hr_first_call, hr_next_update, hr_y_avg_prev,
             hr_x_prev, hr_stack>>

\* C14 (checkpoint-stack underflow): a state_pop made while the private state
\* stack of a TemporalScatter or of a HomeostaticResponse is empty raises, a
\* state_pop raises only then, and the raising state_pop leaves every live
\* state field of the instance as it was.
Stack_C14_Underflow ==
    [][/\ (ts_last' \in {"pop", "pop_raised"} /\ ts_stack = << >>)
            => ts_last' = "pop_raised" /\ TS_live' = TS_live
       /\ ts_last' = "pop_raised" => ts_stack = << >>
       /\ (hr_last' \in {"pop", "pop_raised"} /\ hr_stack = << >>)
            => hr_last' = "pop_raised" /\ HR_live' = HR_live
       /\ hr_last' = "pop_raised" => hr_stack = << >>]_vars

\* A state_pop was refused on a TemporalScatter whose buffer holds activity
\* and whose earlier state_push was already matched by a state_pop.
Stack_C14_Witness ==
    /\ ts_last = "pop_raised" /\ ts_stack = << >> /\ ~ts_first_call
    /\ ts_buffer # None /\ ts_ncalls >= 2
    /\ \E u \in Units : ts_buffer[1][u][1] = 1

\* A state_pop was refused on a HomeostaticResponse whose threshold was
\* initialized.
Stack_C14_WitnessHR ==
    /\ hr_last = "pop_raised" /\ hr_stack = << >> /\ ~hr_first_call
    /\ hr_t # None /\ hr_x_prev # None

----------------------------------------------------------------------------
(* Properties of the activity record of HomeostaticResponse, checked under  *)
(* SpecHR                                                                   *)

\* C16, as stated (activity record): at the end of every call _x_prev holds
\* the matrix as it was passed in, before the threshold subtraction, the
\* clipping and the slope scaling of that call.
HR_C16_RecordsInput ==
    hr_last = "call" => hr_x_prev = hr_in

\* C16, amended: at the end of every call _x_prev holds the activity as the
\* call leaves it in the caller's matrix, after thresholding: for every unit
\* linear_slope * max(x - t, 0), x being the value passed in and t the
\* threshold the call applied.
HR_C16_RecordsOutput ==
    hr_last = "call" =>
        /\ hr_x_prev = hr_x
        /\ \A u \in Units :
             LET d == hr_in[1][u] - hr_t[1][u]
             IN hr_x_prev[1][u] = hr_linear_slope * (IF d > 0 THEN d ELSE 0)

\* A call whose thresholded output is positive for an active unit and differs
\* from the value passed in.
HR_C16_Witness ==
    /\ hr_last = "call" /\ hr_ncalls = 2
    /\ \E u \in Units : /\ hr_in[1][u] > 0
                        /\ hr_x_prev[1][u] > 0
                        /\ hr_x_prev[1][u] # hr_in[1][u]

\* C17 (one-call lag): every threshold update step that is run, on the first
\* call of the instance too, computes y_avg and t from the activity a
\* previous call recorded in _x_prev, never from the activity passed to the
\* call on which the update runs.
HR_C17_OneCallLag ==
    (hr_last = "call" /\ hr_updated) => hr_src = "a previous call"

----------------------------------------------------------------------------
(* Properties of the depth map of TemporalScatter, checked under SpecTS *)

\* C18 (depth-map range): for every latency sample and every depth >= 1,
\* every entry of the discretized depth map is an integer in [0, depth), a
\* valid index of the unit's buffer; a sample at or beyond the last bin edge
\* +span/2 gets the index depth - 1.
TS_C18_DepthMapRange ==
    ts_depth_map # None =>
        /\ ts_depth # None /\ ts_depth[1] >= 1
        /\ \A u \in Units :
             /\ ts_depth_map[1][u] \in 0..(ts_depth[1] - 1)
             /\ ts_buffer # None
                    => ts_depth_map[1][u] + 1 \in DOMAIN ts_buffer[1][u]
             /\ (ts_raw # None /\ 2 * ts_raw[1][u] >= ts_span)
                    => ts_depth_map[1][u] = ts_depth[1] - 1

\* Depth 3 over the interval [-3/2, 3/2]: one unit's sample lies beyond the
\* last bin edge and gets index 2, the other's lies below the first bin edge
\* and gets index 0.
TS_C18_Witness ==
    /\ ts_raw # None /\ ts_depth = Some(3) /\ ts_span = 3
    /\ ts_raw[1][1] = 2 /\ ts_depth_map[1][1] = 2
    /\ ts_raw[1][2] = -2 /\ ts_depth_map[1][2] = 0

----------------------------------------------------------------------------
(* Properties of the checkpoints of TemporalScatter, checked under SpecTS *)

\* a buffer whose every slot is zero
AllZero(buf) == \A u \in Units : \A k \in DOMAIN buf[u] : buf[u][k] = 0

\* C15 (push isolation): right after state_push every slot of the live
\* buffer, if allocated, is zero and the newest snapshot holds the buffer and
\* first_call as they were before the push; the output of every call made
\* while a state_push is unmatched is, for every unit, the input of the call
\* made d calls earlier since that push (d the unit's depth-map entry), and 0
\* when fewer than d calls were made since: no input from before the push
\* reaches it.
TS_C15_PushIsolation ==
    /\ ts_last = "push" =>
          /\ ts_buffer # None => AllZero(ts_buffer[1])
          /\ ts_stack[Len(ts_stack)][1] = ts_saved[Len(ts_saved)][1]
          /\ ts_stack[Len(ts_stack)][2] = ts_saved[Len(ts_saved)][2]
    /\ (ts_last = "call" /\ ts_stack # << >>) =>
          \A u \in Units :
             LET n == Len(ts_since)
                 d == ts_depth_map[1][u]
             IN ts_x[1][u] = IF n - d >= 1 THEN ts_since[n - d][u] ELSE 0

\* Active input was supplied before a state_push and sits in the snapshot; the
\* second call after the push reads a slot older than the push for one unit
\* and outputs 0 there, and outputs the first post-push input for a unit with
\* depth-map entry 1.
TS_C15_Witness ==
    /\ ts_last = "call" /\ Len(ts_stack) = 1 /\ Len(ts_since) = 2
    /\ ts_stack[1][1] # None
    /\ \E u \in Units : ts_stack[1][1][1][u][1] = 1
    /\ \E u \in Units : ts_depth_map[1][u] = 2 /\ ts_x[1][u] = 0
    /\ \E u \in Units : /\ ts_depth_map[1][u] = 1
                        /\ ts_since[1][u] = 1 /\ ts_x[1][u] = 1

----------------------------------------------------------------------------
(* Properties of HalfRectify, checked under SpecHF *)

\* C12 (half-wave rectification): with randomized_init false every call,
\* the first one and every later one, leaves gain * max(x - t_init, 0) in
\* place of every unit's value x; the threshold matrix t does not exist
\* before the first call, is t_init for every unit after it, and no call
\* changes it once it exists.
HF_C12_Rectify ==
    /\ [](/\ hf_ncalls = 0 => hf_t = None /\ hf_first_call
          /\ (hf_ncalls >= 1 /\ ~hf_randomized_init) =>
                /\ ~hf_first_call
                /\ hf_t = Some([u \in Units |-> hf_t_init])
                /\ \A u \in Units :
                     LET d == hf_in[1][u] - hf_t_init
                     IN hf_x[1][u] = hf_gain * (IF d > 0 THEN d ELSE 0))
    /\ [][hf_t # None => hf_t' = hf_t]_vars

\* t_init 0.2 and gain 2.0, on a call after the first: 0.1 became 0.0 and 0.5
\* became 0.6.
HF_C12_Witness ==
    /\ ~hf_randomized_init /\ hf_t_init = 2 /\ hf_gain = 2 /\ hf_ncalls = 2
    /\ hf_in[1][1] = 1 /\ hf_x[1][1] = 0
    /\ hf_in[1][2] = 5 /\ hf_x[1][2] = 6

\* t_init 0.2 and gain 2.0, on the first call: 0.3 became 0.2.
HF_C12_WitnessFirst ==
    /\ ~hf_randomized_init /\ hf_t_init = 2 /\ hf_gain = 2 /\ hf_ncalls = 1
    /\ hf_in[1][1] = 3 /\ hf_x[1][1] = 2

----------------------------------------------------------------------------
(* Properties of KernelMax, checked under SpecKM *)

KM_C19_HalfWidthCeil ==
    km_box # None =>
        LET q == km_kernel_radius * km_density * km_crop_radius_multiplier
        IN km_box[1].crop_radius = ((IF q > 5 THEN q ELSE 5) + 3) \div 4

\* C19, amended: the half-width used for the crop region is
\* max(1.25, kernel_radius * density * crop_radius_multiplier) rounded down to
\* a whole number (1 for radius 0), and the region is the square of that
\* half-width around the winner clipped to the matrix bounds.
KM_C19_HalfWidthInt ==
    km_box # None =>
        LET q   == km_kernel_radius * km_density * km_crop_radius_multiplier
            h   == IF q <= 5 THEN 1 ELSE q \div 4
            box == km_box[1]
            wr  == km_win[1][1]
            wc  == km_win[1][2]
        IN /\ box.crop_radius = h
           /\ 4 * h <= (IF q > 5 THEN q ELSE 5) /\ (IF q > 5 THEN q ELSE 5) < 4 * h + 4
           /\ box.rmin = (IF wr - h < 0 THEN 0 ELSE wr - h)
           /\ box.rmax = (IF wr + h + 1 > km_rows THEN km_rows ELSE wr + h + 1)
           /\ box.cmin = (IF wc - h < 0 THEN 0 ELSE wc - h)
           /\ box.cmax = (IF wc + h + 1 > km_cols THEN km_cols ELSE wc + h + 1)

\* kernel_radius 0.75, density 1, crop_radius_multiplier 3: the product 2.25
\* gives half-width 2, not 3; the winner is in the bottom right corner of a
\* 3 x 3 matrix and the region is clipped to rows [0, 3) x columns [0, 3).
KM_C19_Witness ==
    /\ km_box # None /\ km_rows = 3 /\ km_cols = 3
    /\ km_kernel_radius = 3 /\ km_density = 1 /\ km_crop_radius_multiplier = 3
    /\ km_box[1].crop_radius = 2
    /\ km_win = Some(<<2, 2>>)
    /\ km_box[1].rmin = 0 /\ km_box[1].rmax = 3

\* kernel_radius 0: the half-width is 1.
KM_C19_WitnessZero ==
    /\ km_box # None /\ km_kernel_radius = 0 /\ km_box[1].crop_radius = 1
    /\ km_rows = 3 /\ km_win = Some(<<1, 1>>)
    /\ km_box[1].rmin = 0 /\ km_box[1].rmax = 3

----------------------------------------------------------------------------
(* Properties of the averages of HomeostaticResponse, checked under SpecHR *)

HR_C21_WitnessNotPlastic ==
    /\ hr_last = "call" /\ hr_updated /\ ~hr_plastic /\ hr_ncalls = 2
    /\ hr_y_avg # None /\ hr_y_avg_prev = hr_y_avg

\* C22 (flipped crop interval): for every matrix shape, winner position and
\* crop radius, ymin = rows - rmax and ymax = rows - rmin, so the bounding box
\* ((cmin, ymin), (cmax, ymax)) handed to the kernel generator is
\* rmax - rmin high and cmax - cmin wide, the shape of the slice
\* x[rmin:rmax, cmin:cmax], and neither is empty.
KM_C22_FlippedInterval ==
    km_box # None =>
        LET box == km_box[1]
        IN /\ box.ymin = km_rows - box.rmax
           /\ box.ymax = km_rows - box.rmin
           /\ box.ymax - box.ymin = box.rmax - box.rmin
           /\ box.ymax - box.ymin >= 1 /\ box.cmax - box.cmin >= 1
           /\ 0 <= box.ymin /\ box.ymax <= km_rows

\* The winner is in the top right corner of a 3 x 2 matrix with half-width 1:
\* rows [0, 2) are the heights [1, 3), and the box is 2 high and 2 wide.
KM_C22_Witness ==
    /\ km_box # None /\ km_rows = 3 /\ km_cols = 2
    /\ km_win = Some(<<0, 1>>) /\ km_box[1].crop_radius = 1
    /\ km_box[1].rmin = 0 /\ km_box[1].rmax = 2
    /\ km_box[1].ymin = 1 /\ km_box[1].ymax = 3
    /\ km_box[1].cmin = 0 /\ km_box[1].cmax = 2
====
